---- MODULE Spec2Model ----
(***************************************************************************)
(* Model of the Stephan hypercomplex number classes: complex<T> and        *)
(* octonion<T> (src/complex.h) and quaternion<T> (src/quaternions.h).      *)
(*                                                                         *)
(* The scalar type T is a floating type (operator/ static_asserts          *)
(* is_floating_point<T>).  A T value is modelled in sign-magnitude form as *)
(* an extended rational [sign, num, den]: sign is the sign bit, num/den    *)
(* the magnitude in lowest terms; den = 0 encodes the non-finite values    *)
(* (num = 1: infinity, num = 0: NaN).  Zero keeps its sign bit, so -0 and  *)
(* +0 are different values that compare equal, as in IEEE-754.  The four   *)
(* arithmetic operations are exact (rounding of + - * / is not modelled);  *)
(* std::sqrt is exact when the root is rational and otherwise rounded to   *)
(* the nearest multiple of 1/(den * SqrtPrecision).                        *)
(***************************************************************************)
EXTENDS Integers, FiniteSets, Sequences, TLC

\* Bounds of the model.
MaxRecv == 4        \* |re| + |im| of the receiver of a complex / octonion call
MaxArg == 2         \* sum of the |components| of the arguments of such a call
MaxQuat == 3        \* sum of the |components| of all operands of a quaternion call
SqrtPrecision == 16 \* grid of a rounded (irrational) square root

----------------------------------------------------------------------------
\* The scalar type T.

RECURSIVE GCD(_, _)
GCD(a, b) == IF b = 0 THEN a ELSE GCD(b, a % b)

\* A T value from a sign bit and a magnitude n/d, in canonical form.
MkT(s, n, d) ==
    IF d = 0
    THEN IF n = 0 THEN [sign |-> 0, num |-> 0, den |-> 0]
                  ELSE [sign |-> s, num |-> 1, den |-> 0]
    ELSE LET g == GCD(n, d) IN [sign |-> s, num |-> n \div g, den |-> d \div g]

\* The T value of an integer literal.
TInt(i) == IF i < 0 THEN MkT(1, -i, 1) ELSE MkT(0, i, 1)

TNegZero == MkT(1, 0, 1)
TNaN == MkT(0, 0, 0)

TIsNaN(a) == a.den = 0 /\ a.num = 0
TIsInf(a) == a.den = 0 /\ a.num = 1
TIsFinite(a) == a.den # 0
TIsZero(a) == a.den # 0 /\ a.num = 0

\* std::signbit
signbit(a) == a.sign = 1

\* unary minus
TNeg(a) == IF TIsNaN(a) THEN a ELSE [a EXCEPT !.sign = 1 - a.sign]

\* The signed numerator of a finite value.
TSigned(a) == IF a.sign = 1 THEN -a.num ELSE a.num

TAbsInt(i) == IF i < 0 THEN -i ELSE i

\* a + b
TAdd(a, b) ==
    IF TIsNaN(a) \/ TIsNaN(b) THEN TNaN
    ELSE IF TIsInf(a) /\ TIsInf(b) THEN (IF a.sign = b.sign THEN a ELSE TNaN)
    ELSE IF TIsInf(a) THEN a
    ELSE IF TIsInf(b) THEN b
    ELSE LET g == GCD(a.den, b.den)
             n == TSigned(a) * (b.den \div g) + TSigned(b) * (a.den \div g)
             d == (a.den \div g) * b.den
         IN  IF n = 0
             THEN MkT(IF a.sign = b.sign THEN a.sign ELSE 0, 0, 1)
             ELSE MkT(IF n < 0 THEN 1 ELSE 0, TAbsInt(n), d)

\* a - b
TSub(a, b) == TAdd(a, TNeg(b))

\* a * b
TMul(a, b) ==
    IF TIsNaN(a) \/ TIsNaN(b) THEN TNaN
    ELSE MkT((a.sign + b.sign) % 2, a.num * b.num, a.den * b.den)

\* a / b
TDiv(a, b) ==
    IF TIsNaN(a) \/ TIsNaN(b) THEN TNaN
    ELSE MkT((a.sign + b.sign) % 2, a.num * b.den, a.den * b.num)

\* a == b
TEq(a, b) ==
    /\ ~TIsNaN(a)
    /\ ~TIsNaN(b)
    /\ \/ TIsZero(a) /\ TIsZero(b)
       \/ a = b

\* a >= 0
TGeZero(a) == ~TIsNaN(a) /\ (a.sign = 0 \/ TIsZero(a))

\* Largest r in lo..hi with r * r <= m (lo * lo <= m < (hi + 1) * (hi + 1)).
RECURSIVE ISqrtIn(_, _, _)
ISqrtIn(lo, hi, m) ==
    IF lo = hi THEN lo
    ELSE LET mid == (lo + hi + 1) \div 2
         IN  IF mid * mid <= m THEN ISqrtIn(mid, hi, m) ELSE ISqrtIn(lo, mid - 1, m)

\* A power of two h with m < h * h.
RECURSIVE ISqrtBound(_, _)
ISqrtBound(h, m) == IF h * h > m THEN h ELSE ISqrtBound(2 * h, m)

\* floor of the square root of a natural number
ISqrt(m) == ISqrtIn(0, ISqrtBound(1, m) - 1, m)

IsSquare(m) == ISqrt(m) * ISqrt(m) = m

\* The square root of a natural number, rounded to the nearest integer.
ISqrtNearest(m) == LET r == ISqrt(m) IN IF m - r * r > r THEN r + 1 ELSE r

\* std::sqrt
TSqrt(a) ==
    IF TIsNaN(a) THEN TNaN
    ELSE IF TIsZero(a) THEN a
    ELSE IF a.sign = 1 THEN TNaN
    ELSE IF TIsInf(a) THEN a
    ELSE IF IsSquare(a.num) /\ IsSquare(a.den)
         THEN MkT(0, ISqrt(a.num), ISqrt(a.den))
         ELSE MkT(0, ISqrtNearest(a.num * a.den * SqrtPrecision * SqrtPrecision),
                  a.den * SqrtPrecision)

----------------------------------------------------------------------------
\* complex<T>  (src/complex.h)

\* complex(T _real_part = 0, T _imaginary_part = 0, bool _use_electric_syntax = false)
complex(re, im, flag) ==
    [real_part |-> re, imaginary_part |-> im, use_electric_syntax |-> flag]

complex_Re(c) == c.real_part
complex_Im(c) == c.imaginary_part

\* void UseJInOutput(bool flag)
complex_UseJInOutput(c, flag) == [c EXCEPT !.use_electric_syntax = flag]

complex_eq(c, rhs) ==
    TEq(c.real_part, rhs.real_part) /\ TEq(c.imaginary_part, rhs.imaginary_part)

\* Mutant of complex_conjugate: the conjugate built from a copy of *this, which
\* carries the display flag along.
complex_conjugate_copy(c) == [c EXCEPT !.imaginary_part = TNeg(c.imaginary_part)]

complex_conjugate(c) == complex(c.real_part, TNeg(c.imaginary_part), FALSE)

complex_add(c, rhs) ==
    complex(TAdd(c.real_part, rhs.real_part),
            TAdd(c.imaginary_part, rhs.imaginary_part), FALSE)

complex_add_scalar(c, value) ==
    complex(TAdd(c.real_part, value), c.imaginary_part, FALSE)

complex_sub(c, rhs) ==
    complex(TSub(c.real_part, rhs.real_part),
            TSub(c.imaginary_part, rhs.imaginary_part), FALSE)

complex_sub_scalar(c, value) ==
    complex(TSub(c.real_part, value), c.imaginary_part, FALSE)

complex_mul(c, rhs) ==
    complex(TSub(TMul(c.real_part, rhs.real_part),
                 TMul(c.imaginary_part, rhs.imaginary_part)),
            TAdd(TMul(c.real_part, rhs.imaginary_part),
                 TMul(c.imaginary_part, rhs.real_part)), FALSE)

complex_mul_scalar(c, value) ==
    complex(TMul(c.real_part, value), TMul(c.imaginary_part, value), FALSE)

\* Mutant of complex_div: the divisor taken from the receiver instead of rhs.
complex_div_receiver_norm(c, rhs) ==
    LET divisor == TAdd(TMul(c.real_part, c.real_part),
                        TMul(c.imaginary_part, c.imaginary_part))
        real_numerator == TAdd(TMul(c.real_part, rhs.real_part),
                               TMul(c.imaginary_part, rhs.imaginary_part))
        imaginary_numerator == TSub(TMul(c.imaginary_part, rhs.real_part),
                                    TMul(c.real_part, rhs.imaginary_part))
    IN  complex(TDiv(real_numerator, divisor), TDiv(imaginary_numerator, divisor), FALSE)

complex_div(c, rhs) ==
    LET divisor == TAdd(TMul(rhs.real_part, rhs.real_part),
                        TMul(rhs.imaginary_part, rhs.imaginary_part))
        real_numerator == TAdd(TMul(c.real_part, rhs.real_part),
                               TMul(c.imaginary_part, rhs.imaginary_part))
        imaginary_numerator == TSub(TMul(c.imaginary_part, rhs.real_part),
                                    TMul(c.real_part, rhs.imaginary_part))
    IN  complex(TDiv(real_numerator, divisor), TDiv(imaginary_numerator, divisor), FALSE)

complex_div_scalar(c, value) ==
    complex(TDiv(c.real_part, value), TDiv(c.imaginary_part, value), FALSE)

\* Mutant of complex_sqrt: the sign taken from imaginary_part < 0 instead of
\* std::signbit, which misses negative zero.
complex_sqrt_less_than(c) ==
    LET common == TSqrt(TAdd(TMul(c.real_part, c.real_part),
                             TMul(c.imaginary_part, c.imaginary_part)))
        gamma == TSqrt(TDiv(TAdd(c.real_part, common), TInt(2)))
        sign_bit == IF signbit(c.imaginary_part) /\ ~TIsZero(c.imaginary_part) THEN -1 ELSE 1
        delta == TMul(TInt(sign_bit),
                      TSqrt(TDiv(TAdd(TNeg(c.real_part), common), TInt(2))))
    IN  complex(gamma, delta, FALSE)

\* The principal square root.
complex_sqrt(c) ==
    LET common == TSqrt(TAdd(TMul(c.real_part, c.real_part),
                             TMul(c.imaginary_part, c.imaginary_part)))
        gamma == TSqrt(TDiv(TAdd(c.real_part, common), TInt(2)))
        sign_bit == IF signbit(c.imaginary_part) THEN -1 ELSE 1
        delta == TMul(TInt(sign_bit),
                      TSqrt(TDiv(TAdd(TNeg(c.real_part), common), TInt(2))))
    IN  complex(gamma, delta, FALSE)

complex_norm(c) ==
    TSqrt(TAdd(TMul(c.real_part, c.real_part),
               TMul(c.imaginary_part, c.imaginary_part)))

\* operator<< : the symbol that follows the imaginary part
complex_tag(rhs) == IF rhs.use_electric_syntax THEN "j" ELSE "i"

\* T::operator+(const complex<T>&) and its siblings: the scalar is the left operand.
scalar_add_complex(this, value) ==
    complex(TAdd(complex_Re(value), this), complex_Im(value), FALSE)

scalar_sub_complex(this, value) ==
    complex(TSub(this, complex_Re(value)), TNeg(complex_Im(value)), FALSE)

scalar_mul_complex(this, value) ==
    complex(TMul(this, complex_Re(value)), TMul(this, complex_Im(value)), FALSE)

scalar_div_complex(this, value) == complex_div(complex(this, TInt(0), FALSE), value)

----------------------------------------------------------------------------
\* octonion<T>  (src/complex.h)

\* octonion(T _real_part = 0, T _imaginary_part = 0, ...): the class has the two
\* component members only.
octonion(re, im) == [real_part |-> re, imaginary_part |-> im]

octonion_Re(o) == o.real_part
octonion_Im(o) == o.imaginary_part

octonion_eq(o, rhs) ==
    TEq(o.real_part, rhs.real_part) /\ TEq(o.imaginary_part, rhs.imaginary_part)

octonion_conjugate(o) == octonion(o.real_part, TNeg(o.imaginary_part))

octonion_add(o, rhs) ==
    octonion(TAdd(o.real_part, rhs.real_part),
             TAdd(o.imaginary_part, rhs.imaginary_part))

octonion_add_scalar(o, value) == octonion(TAdd(o.real_part, value), o.imaginary_part)

octonion_sub(o, rhs) ==
    octonion(TSub(o.real_part, rhs.real_part),
             TSub(o.imaginary_part, rhs.imaginary_part))

octonion_sub_scalar(o, value) == octonion(TSub(o.real_part, value), o.imaginary_part)

\* Line 236 has one "(" fewer than ")" ; the operands and operators are those of
\* complex::operator*, read here with the constructor call enclosing both
\* components.
octonion_mul(o, rhs) ==
    octonion(TSub(TMul(o.real_part, rhs.real_part),
                  TMul(o.imaginary_part, rhs.imaginary_part)),
             TAdd(TMul(o.real_part, rhs.imaginary_part),
                  TMul(o.imaginary_part, rhs.real_part)))

octonion_mul_scalar(o, value) ==
    octonion(TMul(o.real_part, value), TMul(o.imaginary_part, value))

\* The divisor is taken from the receiver, and the imaginary numerator is
\* rhs.im * this.re - rhs.re * this.im.
octonion_div(o, rhs) ==
    LET divisor == TAdd(TMul(o.real_part, o.real_part),
                        TMul(o.imaginary_part, o.imaginary_part))
        real_numerator == TAdd(TMul(o.real_part, rhs.real_part),
                               TMul(o.imaginary_part, rhs.imaginary_part))
        imaginary_numerator == TSub(TMul(rhs.imaginary_part, o.real_part),
                                    TMul(rhs.real_part, o.imaginary_part))
    IN  octonion(TDiv(real_numerator, divisor), TDiv(imaginary_numerator, divisor))

octonion_div_scalar(o, value) ==
    octonion(TDiv(o.real_part, value), TDiv(o.imaginary_part, value))

octonion_sqrt(o) ==
    LET common == TSqrt(TAdd(TMul(o.real_part, o.real_part),
                             TMul(o.imaginary_part, o.imaginary_part)))
        gamma == TSqrt(TDiv(TAdd(o.real_part, common), TInt(2)))
        sign_bit == IF signbit(o.imaginary_part) THEN -1 ELSE 1
        delta == TMul(TInt(sign_bit),
                      TSqrt(TDiv(TAdd(TNeg(o.real_part), common), TInt(2))))
    IN  octonion(gamma, delta)

----------------------------------------------------------------------------
\* quaternion<T>  (src/quaternions.h)

quaternion(re, i, j, k) == [real_part |-> re, i_part |-> i, j_part |-> j, k_part |-> k]

quaternion_Re(q) == q.real_part
quaternion_Im1(q) == q.i_part
quaternion_Im2(q) == q.j_part
quaternion_Im3(q) == q.k_part

\* Line 75 names this->i; the class's member is i_part.
quaternion_eq(q, rhs) ==
    /\ TEq(q.real_part, rhs.real_part)
    /\ TEq(q.i_part, rhs.i_part)
    /\ TEq(q.j_part, rhs.j_part)
    /\ TEq(q.k_part, rhs.k_part)

quaternion_conjugate(q) ==
    quaternion(q.real_part, TNeg(q.i_part), TNeg(q.j_part), TNeg(q.k_part))

\* The k component of the sum is this->k_part + rhs.j_part (line 86).
quaternion_add(q, rhs) ==
    quaternion(TAdd(q.real_part, rhs.real_part), TAdd(q.i_part, rhs.i_part),
               TAdd(q.j_part, rhs.j_part), TAdd(q.k_part, rhs.j_part))

quaternion_add_scalar(q, value) ==
    quaternion(TAdd(q.real_part, value), q.i_part, q.j_part, q.k_part)

quaternion_sub(q, rhs) ==
    quaternion(TSub(q.real_part, rhs.real_part), TSub(q.i_part, rhs.i_part),
               TSub(q.j_part, rhs.j_part), TSub(q.k_part, rhs.k_part))

quaternion_sub_scalar(q, value) ==
    quaternion(TSub(q.real_part, value), q.i_part, q.j_part, q.k_part)

\* Mutant of quaternion_mul: the last two terms of the k component exchanged
\* (+ j*i' - i*j'), the product of the operands in the other order.
quaternion_mul_k_swapped(q, rhs) ==
    quaternion(
        TSub(TSub(TSub(TMul(q.real_part, rhs.real_part), TMul(q.i_part, rhs.i_part)),
                  TMul(q.j_part, rhs.j_part)), TMul(q.k_part, rhs.k_part)),
        TSub(TAdd(TAdd(TMul(q.real_part, rhs.i_part), TMul(q.i_part, rhs.real_part)),
                  TMul(q.j_part, rhs.k_part)), TMul(q.k_part, rhs.j_part)),
        TSub(TAdd(TAdd(TMul(q.real_part, rhs.j_part), TMul(q.j_part, rhs.real_part)),
                  TMul(q.k_part, rhs.i_part)), TMul(q.i_part, rhs.k_part)),
        TSub(TAdd(TAdd(TMul(q.real_part, rhs.k_part), TMul(q.k_part, rhs.real_part)),
                  TMul(q.j_part, rhs.i_part)), TMul(q.i_part, rhs.j_part)))

\* a - b - c - d and a + b + c - d associate to the left.
quaternion_mul(q, rhs) ==
    quaternion(
        TSub(TSub(TSub(TMul(q.real_part, rhs.real_part), TMul(q.i_part, rhs.i_part)),
                  TMul(q.j_part, rhs.j_part)), TMul(q.k_part, rhs.k_part)),
        TSub(TAdd(TAdd(TMul(q.real_part, rhs.i_part), TMul(q.i_part, rhs.real_part)),
                  TMul(q.j_part, rhs.k_part)), TMul(q.k_part, rhs.j_part)),
        TSub(TAdd(TAdd(TMul(q.real_part, rhs.j_part), TMul(q.j_part, rhs.real_part)),
                  TMul(q.k_part, rhs.i_part)), TMul(q.i_part, rhs.k_part)),
        TSub(TAdd(TAdd(TMul(q.real_part, rhs.k_part), TMul(q.k_part, rhs.real_part)),
                  TMul(q.i_part, rhs.j_part)), TMul(q.j_part, rhs.i_part)))

quaternion_mul_scalar(q, value) ==
    quaternion(TMul(q.real_part, value), TMul(q.i_part, value),
               TMul(q.j_part, value), TMul(q.k_part, value))

quaternion_norm(q) ==
    TSqrt(TAdd(TAdd(TAdd(TMul(q.real_part, q.real_part), TMul(q.i_part, q.i_part)),
                    TMul(q.j_part, q.j_part)), TMul(q.k_part, q.k_part)))

quaternion_div_scalar(q, value) ==
    quaternion(TDiv(q.real_part, value), TDiv(q.i_part, value),
               TDiv(q.j_part, value), TDiv(q.k_part, value))

\* T base = this->norm(); base *= base; return (*this) / base;
quaternion_reciprocal(q) ==
    LET base0 == quaternion_norm(q)
        base == TMul(base0, base0)
    IN  quaternion_div_scalar(q, base)

\* return (*this) * rhs->reciprocal();
quaternion_div(q, rhs) == quaternion_mul(q, quaternion_reciprocal(rhs))

----------------------------------------------------------------------------
\* Overload resolution: the operation of the class named by t.

Types == {"complex", "octonion", "quaternion"}

Conjugate(t, a) ==
    CASE t = "complex" -> complex_conjugate(a)
      [] t = "octonion" -> octonion_conjugate(a)
      [] t = "quaternion" -> quaternion_conjugate(a)

Equal(t, a, b) ==
    CASE t = "complex" -> complex_eq(a, b)
      [] t = "octonion" -> octonion_eq(a, b)
      [] t = "quaternion" -> quaternion_eq(a, b)

Plus(t, a, b) ==
    CASE t = "complex" -> complex_add(a, b)
      [] t = "octonion" -> octonion_add(a, b)
      [] t = "quaternion" -> quaternion_add(a, b)

PlusScalar(t, a, v) ==
    CASE t = "complex" -> complex_add_scalar(a, v)
      [] t = "octonion" -> octonion_add_scalar(a, v)
      [] t = "quaternion" -> quaternion_add_scalar(a, v)

Minus(t, a, b) ==
    CASE t = "complex" -> complex_sub(a, b)
      [] t = "octonion" -> octonion_sub(a, b)
      [] t = "quaternion" -> quaternion_sub(a, b)

MinusScalar(t, a, v) ==
    CASE t = "complex" -> complex_sub_scalar(a, v)
      [] t = "octonion" -> octonion_sub_scalar(a, v)
      [] t = "quaternion" -> quaternion_sub_scalar(a, v)

Times(t, a, b) ==
    CASE t = "complex" -> complex_mul(a, b)
      [] t = "octonion" -> octonion_mul(a, b)
      [] t = "quaternion" -> quaternion_mul(a, b)

TimesScalar(t, a, v) ==
    CASE t = "complex" -> complex_mul_scalar(a, v)
      [] t = "octonion" -> octonion_mul_scalar(a, v)
      [] t = "quaternion" -> quaternion_mul_scalar(a, v)

Over(t, a, b) ==
    CASE t = "complex" -> complex_div(a, b)
      [] t = "octonion" -> octonion_div(a, b)
      [] t = "quaternion" -> quaternion_div(a, b)

OverScalar(t, a, v) ==
    CASE t = "complex" -> complex_div_scalar(a, v)
      [] t = "octonion" -> octonion_div_scalar(a, v)
      [] t = "quaternion" -> quaternion_div_scalar(a, v)

SquareRoot(t, a) ==
    CASE t = "complex" -> complex_sqrt(a)
      [] t = "octonion" -> octonion_sqrt(a)

Norm(t, a) ==
    CASE t = "complex" -> complex_norm(a)
      [] t = "quaternion" -> quaternion_norm(a)

\* The default-constructed value: every component zero.
Default(t) ==
    CASE t = "complex" -> complex(TInt(0), TInt(0), FALSE)
      [] t = "octonion" -> octonion(TInt(0), TInt(0))
      [] t = "quaternion" -> quaternion(TInt(0), TInt(0), TInt(0), TInt(0))

----------------------------------------------------------------------------
\* The values the operands are drawn from.

IntVals(m) == {TInt(i) : i \in -m..m}
SignedVals(m) == IntVals(m) \cup {TNegZero}

IsIntVal(v) == v.den = 1 /\ ~(v.num = 0 /\ v.sign = 1)
IsSignedVal(v) == v.den = 1

Weight2(a) == a.real_part.num + a.imaginary_part.num
Weight4(q) == q.real_part.num + q.i_part.num + q.j_part.num + q.k_part.num

\* Receivers of complex and octonion calls: integer components or -0.
IsRecv2(a) ==
    IsSignedVal(a.real_part) /\ IsSignedVal(a.imaginary_part) /\ Weight2(a) <= MaxRecv

\* Arguments of complex and octonion calls: integer components.
IsArg2(a) ==
    IsIntVal(a.real_part) /\ IsIntVal(a.imaginary_part) /\ Weight2(a) <= MaxArg

IsInt4(q) ==
    IsIntVal(q.real_part) /\ IsIntVal(q.i_part) /\ IsIntVal(q.j_part) /\ IsIntVal(q.k_part)

\* Both operands of a quaternion call.
IsQuatPair(a, b) == IsInt4(a) /\ IsInt4(b) /\ Weight4(a) + Weight4(b) <= MaxQuat

ComplexRecv ==
    {c \in {complex(re, im, f) : re \in SignedVals(MaxRecv), im \in SignedVals(MaxRecv),
                                 f \in BOOLEAN} : IsRecv2(c)}

ComplexArg ==
    {c \in {complex(re, im, f) : re \in IntVals(MaxArg), im \in IntVals(MaxArg),
                                 f \in BOOLEAN} : IsArg2(c)}

OctonionRecv ==
    {o \in {octonion(re, im) : re \in SignedVals(MaxRecv), im \in SignedVals(MaxRecv)} :
        IsRecv2(o)}

OctonionArg ==
    {o \in {octonion(re, im) : re \in IntVals(MaxArg), im \in IntVals(MaxArg)} : IsArg2(o)}

Quaternions(m) ==
    {q \in {quaternion(a, b, c, d) : a \in IntVals(m), b \in IntVals(m),
                                     c \in IntVals(m), d \in IntVals(m)} : Weight4(q) <= m}

\* What the bounds leave for a scalar or third operand beside the operands a, b.
Budget(t, a, b) ==
    CASE t = "quaternion" -> MaxQuat - Weight4(a) - Weight4(b)
      [] OTHER -> MaxArg - Weight2(b)

\* The third operand of a chained sum, by the budget left for it.
ThirdComplex ==
    [k \in 0..MaxArg |->
        {c \in {complex(re, im, FALSE) : re \in IntVals(k), im \in IntVals(k)} :
            Weight2(c) <= k}]

ThirdOctonion ==
    [k \in 0..MaxArg |->
        {o \in {octonion(re, im) : re \in IntVals(k), im \in IntVals(k)} : Weight2(o) <= k}]

ThirdQuaternion == [k \in 0..MaxQuat |-> Quaternions(k)]

Third(t, a, b) ==
    CASE t = "complex" -> ThirdComplex[Budget(t, a, b)]
      [] t = "octonion" -> ThirdOctonion[Budget(t, a, b)]
      [] t = "quaternion" -> ThirdQuaternion[Budget(t, a, b)]

\* The bare scalar operand of a call, by the budget left for it.
ScalarsUpTo == [k \in 0..(MaxArg + MaxQuat) |-> IntVals(k)]

Scalars(t, a, b) == ScalarsUpTo[Budget(t, a, b)]

\* May r be kept as the receiver (slot "x") or the argument (slot "y")?
Storable(t, slot, r, other) ==
    CASE t = "quaternion" -> IF slot = "x" THEN IsQuatPair(r, other) ELSE IsQuatPair(other, r)
      [] OTHER -> IF slot = "x" THEN IsRecv2(r) ELSE IsArg2(r)

----------------------------------------------------------------------------
\* State.

VARIABLES
    ty,     \* the class of the objects: "complex", "octonion" or "quaternion"
    x,      \* the receiver object (*this)
    y,      \* the argument object (rhs)
    z,      \* the third operand of the call in progress (default-constructed if none)
    s,      \* the bare scalar operand of the call in progress (0 if none)
    res,    \* the value the last call returned
    last    \* the name of the last call, "none" when no result is held

vars == <<ty, x, y, z, s, res, last>>

NoResult == [none |-> TRUE]

\* The calls that return an object of the class.
ObjectOps ==
    {"conjugate", "add", "add_chain", "add_scalar", "sub", "sub_scalar", "mul",
     "mul_scalar", "div", "div_scalar", "sqrt", "reciprocal",
     "scalar_add", "scalar_sub", "scalar_mul", "scalar_div"}

Init ==
    /\ ty \in Types
    /\ CASE ty = "complex" -> x \in ComplexRecv /\ y \in ComplexArg
         [] ty = "octonion" -> x \in OctonionRecv /\ y \in OctonionArg
         [] ty = "quaternion" ->
              /\ x \in Quaternions(MaxQuat)
              /\ y \in Quaternions(MaxQuat)
              /\ IsQuatPair(x, y)
    /\ z = Default(ty)
    /\ s = TInt(0)
    /\ res = NoResult
    /\ last = "none"

\* A call on x that takes no scalar and no third operand and returns r.  The
\* caller evaluates one call at a time: the result of the previous call has been
\* stored or discarded.
Returns(name, r) ==
    /\ last = "none"
    /\ res' = r
    /\ last' = name
    /\ z' = Default(ty)
    /\ s' = TInt(0)
    /\ UNCHANGED <<ty, x, y>>

\* A call with the bare scalar v that returns r.
ReturnsWithScalar(name, v, r) ==
    /\ last = "none"
    /\ res' = r
    /\ last' = name
    /\ z' = Default(ty)
    /\ s' = v
    /\ UNCHANGED <<ty, x, y>>

Re ==
    Returns("Re", x.real_part)

Im ==
    /\ ty \in {"complex", "octonion"}
    /\ Returns("Im", x.imaginary_part)

Im1 ==
    /\ ty = "quaternion"
    /\ Returns("Im1", quaternion_Im1(x))

Im2 ==
    /\ ty = "quaternion"
    /\ Returns("Im2", quaternion_Im2(x))

Im3 ==
    /\ ty = "quaternion"
    /\ Returns("Im3", quaternion_Im3(x))

\* x.UseJInOutput(flag) or y.UseJInOutput(flag): returns nothing, so the result
\* held from the last call stays as it is.
UseJInOutput ==
    /\ ty = "complex"
    /\ \E flag \in BOOLEAN :
          \/ x' = complex_UseJInOutput(x, flag) /\ y' = y
          \/ y' = complex_UseJInOutput(y, flag) /\ x' = x
    /\ UNCHANGED <<ty, z, s, res, last>>

OpEqual == Returns("eq", Equal(ty, x, y))

\* Mutant of OpConjugate: the receiver negated in place and returned.
OpConjugate_InPlace ==
    /\ last = "none"
    /\ x' = Conjugate(ty, x)
    /\ res' = x'
    /\ last' = "conjugate"
    /\ z' = Default(ty)
    /\ s' = TInt(0)
    /\ UNCHANGED <<ty, y>>

OpConjugate == Returns("conjugate", Conjugate(ty, x))

OpAdd == Returns("add", Plus(ty, x, y))

OpSub == Returns("sub", Minus(ty, x, y))

OpMul == Returns("mul", Times(ty, x, y))

OpDiv == Returns("div", Over(ty, x, y))

OpAddScalar ==
    /\ last = "none"
    /\ \E v \in Scalars(ty, x, y) : ReturnsWithScalar("add_scalar", v, PlusScalar(ty, x, v))

OpSubScalar ==
    /\ last = "none"
    /\ \E v \in Scalars(ty, x, y) : ReturnsWithScalar("sub_scalar", v, MinusScalar(ty, x, v))

OpMulScalar ==
    /\ last = "none"
    /\ \E v \in Scalars(ty, x, y) : ReturnsWithScalar("mul_scalar", v, TimesScalar(ty, x, v))

OpDivScalar ==
    /\ last = "none"
    /\ \E v \in Scalars(ty, x, y) : ReturnsWithScalar("div_scalar", v, OverScalar(ty, x, v))

OpSqrt ==
    /\ ty \in {"complex", "octonion"}
    /\ Returns("sqrt", SquareRoot(ty, x))

OpNorm ==
    /\ ty \in {"complex", "quaternion"}
    /\ Returns("norm", Norm(ty, x))

OpReciprocal ==
    /\ ty = "quaternion"
    /\ Returns("reciprocal", quaternion_reciprocal(x))

\* v + x, v - x, v * x, v / x with the scalar v on the left.
ScalarAdd ==
    /\ ty = "complex"
    /\ \E v \in Scalars(ty, x, y) : ReturnsWithScalar("scalar_add", v, scalar_add_complex(v, x))

ScalarSub ==
    /\ ty = "complex"
    /\ \E v \in Scalars(ty, x, y) : ReturnsWithScalar("scalar_sub", v, scalar_sub_complex(v, x))

ScalarMul ==
    /\ ty = "complex"
    /\ \E v \in Scalars(ty, x, y) : ReturnsWithScalar("scalar_mul", v, scalar_mul_complex(v, x))

ScalarDiv ==
    /\ ty = "complex"
    /\ \E v \in Scalars(ty, x, y) : ReturnsWithScalar("scalar_div", v, scalar_div_complex(v, x))

\* (x + y) + c : operator+ applied to the result of operator+.
OpAddChain ==
    /\ last = "none"
    /\ \E c \in Third(ty, x, y) :
        /\ res' = Plus(ty, Plus(ty, x, y), c)
        /\ last' = "add_chain"
        /\ z' = c
        /\ s' = TInt(0)
        /\ UNCHANGED <<ty, x, y>>

\* The caller keeps the returned object as the operand of later calls
\* (copy assignment x = res or y = res).
Store ==
    /\ last \in ObjectOps
    /\ \/ Storable(ty, "x", res, y) /\ x' = res /\ y' = y
       \/ Storable(ty, "y", res, x) /\ y' = res /\ x' = x
    /\ res' = NoResult
    /\ last' = "none"
    /\ z' = Default(ty)
    /\ s' = TInt(0)
    /\ UNCHANGED ty

\* The caller drops the returned value (the temporary is destroyed).
Discard ==
    /\ last # "none"
    /\ res' = NoResult
    /\ last' = "none"
    /\ z' = Default(ty)
    /\ s' = TInt(0)
    /\ UNCHANGED <<ty, x, y>>

Next ==
    \/ Re \/ Im \/ Im1 \/ Im2 \/ Im3
    \/ UseJInOutput
    \/ OpEqual \/ OpConjugate
    \/ OpAdd \/ OpAddScalar \/ OpSub \/ OpSubScalar
    \/ OpMul \/ OpMulScalar \/ OpDiv \/ OpDivScalar
    \/ OpSqrt \/ OpNorm \/ OpReciprocal
    \/ ScalarAdd \/ ScalarSub \/ ScalarMul \/ ScalarDiv
    \/ OpAddChain
    \/ Store
    \/ Discard

Spec == Init /\ [][Next]_vars

----------------------------------------------------------------------------
\* Vocabulary of the properties.

\* The value of an integer-valued T (both zeros are 0).
IntOf(v) == TSigned(v)

\* The quotient n / d of two integers as a T value (d # 0).
Quot(n, d) ==
    MkT(IF (n < 0) # (d < 0) THEN 1 ELSE 0, TAbsInt(n), TAbsInt(d))

\* |a - b| <= n / d, for finite a and b.
Within(a, b, n, d) ==
    LET diff == TSub(a, b)
    IN  TIsFinite(diff) /\ diff.num * d <= n * diff.den

\* The square root of v is computed without rounding.
ExactRoot(v) == TIsZero(v) \/ (v.sign = 0 /\ v.den # 0 /\ IsSquare(v.num) /\ IsSquare(v.den))

----------------------------------------------------------------------------
\* The Hamilton product of two quaternions with integer components, in integer
\* arithmetic.
Hamilton(p, q) ==
    LET a == IntOf(p.real_part)  b == IntOf(p.i_part)
        c == IntOf(p.j_part)     d == IntOf(p.k_part)
        a2 == IntOf(q.real_part) b2 == IntOf(q.i_part)
        c2 == IntOf(q.j_part)    d2 == IntOf(q.k_part)
    IN  quaternion(TInt(a * a2 - b * b2 - c * c2 - d * d2),
                   TInt(a * b2 + b * a2 + c * d2 - d * c2),
                   TInt(a * c2 + c * a2 + d * b2 - b * d2),
                   TInt(a * d2 + d * a2 + b * c2 - c * b2))

UnitI == quaternion(TInt(0), TInt(1), TInt(0), TInt(0))
UnitJ == quaternion(TInt(0), TInt(0), TInt(1), TInt(0))
UnitK == quaternion(TInt(0), TInt(0), TInt(0), TInt(1))
MinusUnitK == quaternion(TInt(0), TInt(0), TInt(0), TInt(-1))

\* C6: quaternion multiply is the Hamilton product: for x = (a,b,c,d) and
\* y = (a',b',c',d') the product x * y is (aa'-bb'-cc'-dd', ab'+ba'+cd'-dc',
\* ac'+ca'+db'-bd', ad'+da'+bc'-cb'), the components compared with ==; in
\* particular i * j is k and j * i is -k.
C6_HamiltonProduct ==
    (ty = "quaternion" /\ last = "mul") =>
        /\ quaternion_eq(res, Hamilton(x, y))
        /\ (x = UnitI /\ y = UnitJ) => quaternion_eq(res, UnitK)
        /\ (x = UnitJ /\ y = UnitI) => quaternion_eq(res, MinusUnitK)

\* j * i has been computed and is -k, not k.
C6_Witness ==
    /\ ty = "quaternion" /\ last = "mul"
    /\ x = UnitJ /\ y = UnitI
    /\ quaternion_eq(res, MinusUnitK)
    /\ ~quaternion_eq(res, UnitK)

----------------------------------------------------------------------------
\* r is the quotient (a + bi) / (c + di), in integer arithmetic.
QuotientIs(r, a, b, c, d) ==
    /\ TEq(r.real_part, Quot(a * c + b * d, c * c + d * d))
    /\ TEq(r.imaginary_part, Quot(b * c - a * d, c * c + d * d))

\* C7: complex divide: for (a,b) / (c,d) with c*c + d*d nonzero the result has
\* real = (a*c + b*d) / (c*c + d*d) and imaginary = (b*c - a*d) / (c*c + d*d), so
\* that (1,0) / (0,1) == (0,-1); the same holds for s / (c,d) with a bare scalar s
\* on the left, read as (s,0).
C7_ComplexDivide ==
    /\ (ty = "complex" /\ last = "div" /\ ~(TIsZero(y.real_part) /\ TIsZero(y.imaginary_part))) =>
          /\ QuotientIs(res, IntOf(x.real_part), IntOf(x.imaginary_part),
                        IntOf(y.real_part), IntOf(y.imaginary_part))
          /\ (IntOf(x.real_part) = 1 /\ IntOf(x.imaginary_part) = 0
                /\ IntOf(y.real_part) = 0 /\ IntOf(y.imaginary_part) = 1)
             => complex_eq(res, complex(TInt(0), TInt(-1), FALSE))
    /\ (ty = "complex" /\ last = "scalar_div"
          /\ ~(TIsZero(x.real_part) /\ TIsZero(x.imaginary_part))) =>
          QuotientIs(res, IntOf(s), 0, IntOf(x.real_part), IntOf(x.imaginary_part))

\* (1,0) / (0,1) has been computed.
C7_Witness ==
    /\ ty = "complex" /\ last = "div"
    /\ IntOf(x.real_part) = 1 /\ IntOf(x.imaginary_part) = 0
    /\ IntOf(y.real_part) = 0 /\ IntOf(y.imaginary_part) = 1
    /\ res.imaginary_part = TInt(-1)

----------------------------------------------------------------------------
\* The three square roots that sqrt() takes of c are computed without rounding.
RootsExact(c) ==
    LET n2 == TAdd(TMul(c.real_part, c.real_part), TMul(c.imaginary_part, c.imaginary_part))
    IN  /\ ExactRoot(n2)
        /\ ExactRoot(TDiv(TAdd(c.real_part, TSqrt(n2)), TInt(2)))
        /\ ExactRoot(TDiv(TAdd(TNeg(c.real_part), TSqrt(n2)), TInt(2)))

----------------------------------------------------------------------------
\* C10: the display flag does not propagate through arithmetic: the object that
\* conjugate, add, subtract, multiply, divide or sqrt returns has the flag
\* cleared and renders with the first symbol, whatever the flags of the operands.
C10_ResultFlagCleared ==
    (ty = "complex" /\ last \in ObjectOps) =>
        /\ res.use_electric_syntax = FALSE
        /\ complex_tag(res) = "i"

\* Both operands render with j and their product has been computed.
C10_Witness ==
    /\ ty = "complex" /\ last = "mul"
    /\ x.use_electric_syntax /\ y.use_electric_syntax
    /\ complex_tag(x) = "j"

----------------------------------------------------------------------------
\* Two T values are the same number (== , with NaN the same as NaN).
SameValue(a, b) == (TIsNaN(a) /\ TIsNaN(b)) \/ TEq(a, b)

SameQuaternion(p, q) ==
    /\ SameValue(p.real_part, q.real_part)
    /\ SameValue(p.i_part, q.i_part)
    /\ SameValue(p.j_part, q.j_part)
    /\ SameValue(p.k_part, q.k_part)

\* a*a + b*b + c*c + d*d of a quaternion with integer components
NormSquared(q) ==
    IntOf(q.real_part) * IntOf(q.real_part) + IntOf(q.i_part) * IntOf(q.i_part)
        + IntOf(q.j_part) * IntOf(q.j_part) + IntOf(q.k_part) * IntOf(q.k_part)

\* C1: addition is commutative and associative for all three types: x + y
\* equals y + x, and (x + y) + z equals x + (y + z), component by component.
C1_AdditionCommutativeAssociative ==
    /\ last = "add" => Equal(ty, res, Plus(ty, y, x))
    /\ last = "add_chain" => Equal(ty, res, Plus(ty, x, Plus(ty, y, z)))

\* C2: quaternion add and subtract are componentwise, and a scalar operand
\* changes the real component only.
C2_QuaternionAddSubtract ==
    ty = "quaternion" =>
        /\ last = "add" =>
              SameQuaternion(res, quaternion(TAdd(x.real_part, y.real_part),
                                             TAdd(x.i_part, y.i_part),
                                             TAdd(x.j_part, y.j_part),
                                             TAdd(x.k_part, y.k_part)))
        /\ last = "sub" =>
              SameQuaternion(res, quaternion(TSub(x.real_part, y.real_part),
                                             TSub(x.i_part, y.i_part),
                                             TSub(x.j_part, y.j_part),
                                             TSub(x.k_part, y.k_part)))
        /\ last = "add_scalar" =>
              SameQuaternion(res, quaternion(TAdd(x.real_part, s), x.i_part, x.j_part, x.k_part))
        /\ last = "sub_scalar" =>
              SameQuaternion(res, quaternion(TSub(x.real_part, s), x.i_part, x.j_part, x.k_part))

\* C3: quaternion reciprocal() returns conjugate() divided by norm() squared:
\* (a/n, -b/n, -c/n, -d/n) with n = a*a + b*b + c*c + d*d.  Stated for the
\* receivers whose norm is computed without rounding.
C3_QuaternionReciprocal ==
    (ty = "quaternion" /\ last = "reciprocal" /\ IsSquare(NormSquared(x))) =>
        LET n == TInt(NormSquared(x))
        IN  SameQuaternion(res, quaternion(TDiv(x.real_part, n), TDiv(TNeg(x.i_part), n),
                                           TDiv(TNeg(x.j_part), n), TDiv(TNeg(x.k_part), n)))

\* r is the multiplicative identity of the class t.
IsOne(t, r) ==
    CASE t = "quaternion" ->
           /\ TEq(r.real_part, TInt(1)) /\ TEq(r.i_part, TInt(0))
           /\ TEq(r.j_part, TInt(0)) /\ TEq(r.k_part, TInt(0))
      [] OTHER -> TEq(r.real_part, TInt(1)) /\ TEq(r.imaginary_part, TInt(0))

\* C4: for every nonzero a of each type, a / a is the multiplicative identity:
\* real component 1, every other component 0.  Stated for the quaternions whose
\* norm is computed without rounding.
C4_SelfDivisionIsOne ==
    (/\ last = "div"
     /\ Equal(ty, x, y)
     /\ ~Equal(ty, x, Default(ty))
     /\ ty = "quaternion" => IsSquare(NormSquared(x))) => IsOne(ty, res)

\* The complex number with the components of an octonion.
AsComplex(o) == complex(o.real_part, o.imaginary_part, FALSE)

SamePair(o, c) ==
    o.real_part = c.real_part /\ o.imaginary_part = c.imaginary_part

\* C5: octonion computes what complex computes: conjugate, add, subtract,
\* multiply, divide and sqrt on octonion operands give the (real, imaginary) pair
\* that the same operation gives on complex operands with those components.
C5_OctonionAsComplex ==
    ty = "octonion" =>
        /\ last = "conjugate" => SamePair(res, complex_conjugate(AsComplex(x)))
        /\ last = "add" => SamePair(res, complex_add(AsComplex(x), AsComplex(y)))
        /\ last = "sub" => SamePair(res, complex_sub(AsComplex(x), AsComplex(y)))
        /\ last = "mul" => SamePair(res, complex_mul(AsComplex(x), AsComplex(y)))
        /\ last = "div" => SamePair(res, complex_div(AsComplex(x), AsComplex(y)))
        /\ last = "sqrt" => SamePair(res, complex_sqrt(AsComplex(x)))

----------------------------------------------------------------------------
\* The value the call named name returns for receiver a, argument b, third
\* operand c and scalar v.
Unflagged(t, a) == IF t = "complex" THEN complex_UseJInOutput(a, FALSE) ELSE a

ResultOf(t, name, a, b, c, v) ==
    CASE name = "Re" -> a.real_part
      [] name = "Im" -> a.imaginary_part
      [] name = "Im1" -> a.i_part
      [] name = "Im2" -> a.j_part
      [] name = "Im3" -> a.k_part
      [] name = "eq" -> Equal(t, a, b)
      [] name = "conjugate" -> Conjugate(t, a)
      [] name = "add" -> Plus(t, a, b)
      [] name = "add_chain" -> Plus(t, Plus(t, a, b), c)
      [] name = "add_scalar" -> PlusScalar(t, a, v)
      [] name = "sub" -> Minus(t, a, b)
      [] name = "sub_scalar" -> MinusScalar(t, a, v)
      [] name = "mul" -> Times(t, a, b)
      [] name = "mul_scalar" -> TimesScalar(t, a, v)
      [] name = "div" -> Over(t, a, b)
      [] name = "div_scalar" -> OverScalar(t, a, v)
      [] name = "sqrt" -> SquareRoot(t, a)
      [] name = "norm" -> Norm(t, a)
      [] name = "reciprocal" -> quaternion_reciprocal(a)
      [] name = "scalar_add" -> scalar_add_complex(v, a)
      [] name = "scalar_sub" -> scalar_sub_complex(v, a)
      [] name = "scalar_mul" -> scalar_mul_complex(v, a)
      [] name = "scalar_div" -> scalar_div_complex(v, a)

IsCall == last = "none" /\ last' # "none"

IsAssignment == last \in ObjectOps /\ last' = "none" /\ (x' = res \/ y' = res)

C9_Step ==
    /\ IsCall => (x' = x /\ y' = y)
    /\ (x' # x \/ y' # y) =>
          \/ IsAssignment
          \/ /\ ty = "complex"
             /\ Unflagged(ty, x') = Unflagged(ty, x)
             /\ Unflagged(ty, y') = Unflagged(ty, y)
             /\ res' = res /\ last' = last
    /\ last' # "none" =>
          res' = ResultOf(ty', last', Unflagged(ty', x'), Unflagged(ty', y'), z', s')

\* C9: operands are never mutated.  A call (a step that returns a value) leaves
\* the receiver and the argument as they were; the display-symbol toggle changes
\* nothing but the display flag of its object, and the value returned by a call
\* is the value the same call returns with every display flag cleared.
C9_OperandsNeverMutated == [][C9_Step]_vars

\* A quotient has been returned while the receiver shows the second symbol and
\* the argument the first, both operands nonzero.
C9_Witness ==
    /\ ty = "complex" /\ last = "div"
    /\ x.use_electric_syntax /\ ~y.use_electric_syntax
    /\ Weight2(x) > 0 /\ Weight2(y) > 0

====
